---------------------------- MODULE Spec2Model ----------------------------
(***************************************************************************)
(* Model of the coordinate conversion core of src/app.py:                  *)
(*   parse_dms, dd_to_dms, get_input_epsg_code, convert_dd_to_auto_utm,    *)
(*   process_coordinates.                                                  *)
(*                                                                         *)
(* Text is a sequence of one-character strings.  The two non-ASCII         *)
(* characters that dd_to_dms writes after the degrees are the elements     *)
(* "<not>" and "<infty>".                                                  *)
(*                                                                         *)
(* A float is NaN, Inf, or a record [neg, ip, fr]: a sign bit, the integer *)
(* part and the fraction counted in ticks of 1/360 000 000 (1e-5 arc       *)
(* second when the unit is the degree), so that a rounding of the seconds  *)
(* to 4 decimals is a real rounding, and every sum stays below 2^31.       *)
(***************************************************************************)
EXTENDS Integers, Sequences, FiniteSets, TLC

VARIABLES
    df_input,        \* the table handed to process_coordinates
    input_crs_name,  \* "Decimal Degrees (DD)" | "Geografis (DMS)" | "UTM"
    input_datum,
    input_zone_str,
    pc,              \* position inside process_coordinates
    df,              \* the working copy (line 143)
    source_epsg,     \* the CRS resolved for the batch (line 169)
    messages,        \* st.error / st.warning calls, in order
    result,          \* the value returned: None or df_final
    rows_parsed,     \* rows whose x/y went through to_numeric/parse_dms/transform
    stage2_rows,     \* rows Stage 2 (lines 197-206) worked on
    applied,         \* the rows of the row-wise apply of line 202 done so far
    hist,            \* the table as it left Stage 1 and as it left line 198
    call_no,         \* which call of process_coordinates this is
    prev_result,     \* what the previous call returned
    fn_pc,           \* position of the pure-function harness
    fn_in,           \* its input
    fn_out           \* its output

vars == <<df_input, input_crs_name, input_datum, input_zone_str, pc, df,
          source_epsg, messages, result, rows_parsed, stage2_rows, applied,
          hist, call_no, prev_result, fn_pc, fn_in, fn_out>>

pipeline_vars == <<df_input, input_crs_name, input_datum, input_zone_str, pc,
                   df, source_epsg, messages, result, rows_parsed,
                   stage2_rows, applied, hist, call_no, prev_result>>

fn_vars == <<fn_pc, fn_in, fn_out>>

\* None, pd.NA, float nan and float inf
None == [special |-> "None"]

NA == [special |-> "NA"]

NaN == [special |-> "nan"]

Inf == [special |-> "inf"]

(***************************************************************************)
(* Text                                                                    *)
(***************************************************************************)
Digits == <<"0", "1", "2", "3", "4", "5", "6", "7", "8", "9">>

LowerCase == <<"a", "b", "c", "d", "e", "f", "g", "h", "i", "j", "k", "l", "m",
               "n", "o", "p", "q", "r", "s", "t", "u", "v", "w", "x", "y", "z">>

UpperCase == <<"A", "B", "C", "D", "E", "F", "G", "H", "I", "J", "K", "L", "M",
               "N", "O", "P", "Q", "R", "S", "T", "U", "V", "W", "X", "Y", "Z">>

IsDigit(c) == \E i \in 1..10 : Digits[i] = c

DigitVal(c) == (CHOOSE i \in 1..10 : Digits[i] = c) - 1

IsSpace(c) == c \in {" ", "\t", "\n"}

\* str.upper() on one character
UpperChar(c) ==
    IF \E i \in 1..26 : LowerCase[i] = c
    THEN UpperCase[CHOOSE i \in 1..26 : LowerCase[i] = c]
    ELSE c

\* str.upper()
Upper(s) == [i \in 1..Len(s) |-> UpperChar(s[i])]

\* whether text s has pat at position i
MatchAt(s, pat, i) ==
    /\ i + Len(pat) - 1 <= Len(s)
    /\ \A k \in 1..Len(pat) : s[i + k - 1] = pat[k]

\* pat in s
Contains(s, pat) == \E i \in 1..Len(s) : MatchAt(s, pat, i)

\* s.replace(pat, rep): left to right, non-overlapping
RECURSIVE ReplaceFrom(_, _, _, _)
ReplaceFrom(s, pat, rep, i) ==
    IF i > Len(s) THEN <<>>
    ELSE IF MatchAt(s, pat, i)
         THEN rep \o ReplaceFrom(s, pat, rep, i + Len(pat))
         ELSE <<s[i]>> \o ReplaceFrom(s, pat, rep, i + 1)

Replace(s, pat, rep) == ReplaceFrom(s, pat, rep, 1)

\* s.strip()
RECURSIVE LStrip(_)
LStrip(s) == IF s # <<>> /\ IsSpace(Head(s)) THEN LStrip(Tail(s)) ELSE s

RECURSIVE RStrip(_)
RStrip(s) ==
    IF s # <<>> /\ IsSpace(s[Len(s)]) THEN RStrip(SubSeq(s, 1, Len(s) - 1)) ELSE s

Strip(s) == RStrip(LStrip(s))

\* re.sub(r"[^0-9\s.-]", "", s)
KeepNumeric(s) ==
    SelectSeq(s, LAMBDA c : IsDigit(c) \/ IsSpace(c) \/ c = "." \/ c = "-")

\* re.split(r'\s+', s): the pieces between runs of whitespace
RECURSIVE SplitFrom(_, _, _)
SplitFrom(s, i, cur) ==
    IF i > Len(s) THEN <<cur>>
    ELSE IF IsSpace(s[i])
         THEN IF i > 1 /\ IsSpace(s[i - 1])
              THEN SplitFrom(s, i + 1, cur)
              ELSE <<cur>> \o SplitFrom(s, i + 1, <<>>)
         ELSE SplitFrom(s, i + 1, Append(cur, s[i]))

SplitWS(s) == SplitFrom(s, 1, <<>>)

\* str(n) of a natural number
RECURSIVE IntToStr(_)
IntToStr(n) ==
    IF n < 10 THEN <<Digits[n + 1]>>
    ELSE Append(IntToStr(n \div 10), Digits[(n % 10) + 1])

\* the number a text of digits denotes
RECURSIVE StrToNat(_)
StrToNat(s) ==
    IF s = <<>> THEN 0
    ELSE 10 * StrToNat(SubSeq(s, 1, Len(s) - 1)) + DigitVal(s[Len(s)])

AllDigits(s) == \A i \in 1..Len(s) : IsDigit(s[i])

\* f"{n:02d}" of a natural number
Pad2(n) == IF n < 10 THEN <<"0">> \o IntToStr(n) ELSE IntToStr(n)

(***************************************************************************)
(* get_input_epsg_code (lines 83-120)                                      *)
(***************************************************************************)
ValueError == [raised |-> "ValueError"]

Returned(v) == [raised |-> "no", value |-> v]

epsg_map_dgn95_n ==
    [z \in 46..54 |->
        CASE z = 46 -> <<"2", "3", "8", "4", "6">>
          [] z = 47 -> <<"2", "3", "8", "4", "7">>
          [] z = 48 -> <<"2", "3", "8", "4", "8">>
          [] z = 49 -> <<"2", "3", "8", "4", "9">>
          [] z = 50 -> <<"2", "3", "8", "5", "0">>
          [] z = 51 -> <<"2", "3", "8", "5", "1">>
          [] z = 52 -> <<"2", "3", "8", "5", "2">>
          [] z = 53 -> <<"2", "3", "8", "5", "3">>
          [] z = 54 -> <<"2", "3", "8", "5", "4">>]

epsg_map_dgn95_s ==
    [z \in 46..54 |->
        CASE z = 46 -> <<"2", "3", "8", "9", "6">>
          [] z = 47 -> <<"2", "3", "8", "9", "7">>
          [] z = 48 -> <<"2", "3", "8", "9", "8">>
          [] z = 49 -> <<"2", "3", "8", "9", "9">>
          [] z = 50 -> <<"2", "3", "8", "9", "0">>
          [] z = 51 -> <<"2", "3", "8", "9", "1">>
          [] z = 52 -> <<"2", "3", "8", "9", "2">>
          [] z = 53 -> <<"2", "3", "8", "9", "3">>
          [] z = 54 -> <<"2", "3", "8", "9", "4">>]

\* a plausible slip: the southern table written by formula, 23890 + (z - 40)
epsg_code_south_by_formula(zone_num, zone_hemi, datum) ==
    LET hemi == Upper(zone_hemi) IN
    IF datum = "WGS84" THEN
        IF ~(1 <= zone_num /\ zone_num <= 60) THEN ValueError
        ELSE IF hemi = <<"S">>
             THEN Returned(<<"3", "2", "7">> \o Pad2(zone_num))
             ELSE Returned(<<"3", "2", "6">> \o Pad2(zone_num))
    ELSE IF datum = "DGN95" THEN
        IF zone_num \notin 46..54 THEN ValueError
        ELSE IF hemi = <<"N">>
             THEN Returned(epsg_map_dgn95_n[zone_num])
             ELSE Returned(IntToStr(23850 + zone_num))
    ELSE ValueError

\* a plausible slip: the WGS84 zone taken as it comes, without the test of
\* line 91
epsg_code_zone_unchecked(zone_num, zone_hemi, datum) ==
    LET hemi == Upper(zone_hemi) IN
    IF datum = "WGS84" THEN
        IF hemi = <<"S">>
        THEN Returned(<<"3", "2", "7">> \o Pad2(zone_num))
        ELSE Returned(<<"3", "2", "6">> \o Pad2(zone_num))
    ELSE IF datum = "DGN95" THEN
        IF hemi = <<"N">>
        THEN IF zone_num \notin DOMAIN epsg_map_dgn95_n THEN ValueError
             ELSE Returned(epsg_map_dgn95_n[zone_num])
        ELSE IF zone_num \notin DOMAIN epsg_map_dgn95_s THEN ValueError
             ELSE Returned(epsg_map_dgn95_s[zone_num])
    ELSE ValueError

get_input_epsg_code(zone_num, zone_hemi, datum) ==
    LET hemi == Upper(zone_hemi) IN
    IF datum = "WGS84" THEN
        IF ~(1 <= zone_num /\ zone_num <= 60) THEN ValueError
        ELSE IF hemi = <<"S">>
             THEN Returned(<<"3", "2", "7">> \o Pad2(zone_num))
             ELSE Returned(<<"3", "2", "6">> \o Pad2(zone_num))
    ELSE IF datum = "DGN95" THEN
        IF hemi = <<"N">>
        THEN IF zone_num \notin DOMAIN epsg_map_dgn95_n THEN ValueError
             ELSE Returned(epsg_map_dgn95_n[zone_num])
        ELSE IF zone_num \notin DOMAIN epsg_map_dgn95_s THEN ValueError
             ELSE Returned(epsg_map_dgn95_s[zone_num])
    ELSE ValueError

(***************************************************************************)
(* Floats                                                                  *)
(***************************************************************************)
TicksPerSecond == 10 * 10000

TicksPerMinute == 60 * TicksPerSecond

TicksPerDegree == 60 * TicksPerMinute

Num(neg, ip, fr) == [neg |-> neg, ip |-> ip, fr |-> fr]

\* a finite float
IsNum(v) == "neg" \in DOMAIN v

\* a float next to zero, below the resolution of the ticks: n * 2^-50 degree,
\* with its sign
Tiny(neg, n) == [neg |-> neg, ip |-> 0, fr |-> 0, sub |-> n]

\* the part of a float below the ticks, in units of 2^-50 degree
Sub(v) == IF "sub" \in DOMAIN v THEN v.sub ELSE 0

Zero == Num(FALSE, 0, 0)

\* v < 0 (false of -0.0)
Lt0(v) == v.neg /\ (v.ip > 0 \/ v.fr > 0 \/ Sub(v) > 0)

IsZero(v) == v.ip = 0 /\ v.fr = 0 /\ Sub(v) = 0

\* abs(v)
Abs(v) == [v EXCEPT !.neg = FALSE]

\* -v
Negate(v) == [v EXCEPT !.neg = ~v.neg]

MagLe(a, b) ==
    \/ a.ip < b.ip
    \/ a.ip = b.ip /\ a.fr < b.fr
    \/ a.ip = b.ip /\ a.fr = b.fr /\ Sub(a) <= Sub(b)

MagAdd(a, b) ==
    LET s == a.fr + b.fr
    IN  Num(FALSE, a.ip + b.ip + (s \div TicksPerDegree), s % TicksPerDegree)

\* |a| - |b| for |a| >= |b|
MagSub(a, b) ==
    IF a.fr >= b.fr
    THEN Num(FALSE, a.ip - b.ip, a.fr - b.fr)
    ELSE Num(FALSE, a.ip - b.ip - 1, a.fr + TicksPerDegree - b.fr)

\* a + b
Add(a, b) ==
    IF a.neg = b.neg THEN [MagAdd(a, b) EXCEPT !.neg = a.neg]
    ELSE IF MagLe(a, b) /\ MagLe(b, a) THEN Zero
    ELSE IF MagLe(b, a) THEN [MagSub(a, b) EXCEPT !.neg = a.neg]
    ELSE [MagSub(b, a) EXCEPT !.neg = b.neg]

\* a <= b
Le(a, b) ==
    CASE Lt0(a) /\ Lt0(b) -> MagLe(b, a)
      [] Lt0(a) /\ ~Lt0(b) -> TRUE
      [] ~Lt0(a) /\ Lt0(b) -> FALSE
      [] OTHER -> MagLe(a, b)

\* |a - b| <= tol
Within(a, b, tol) == MagLe(Add(a, Negate(b)), tol)

RECURSIVE Pow10(_)
Pow10(k) == IF k = 0 THEN 1 ELSE 10 * Pow10(k - 1)

\* the ticks of the fraction digits fd of a number counted in units of
\* tpu ticks (tpu a multiple of 10^maxd; digits past maxd are below the
\* resolution)
FracTicks(fd, tpu, maxd) ==
    LET k == IF Len(fd) < maxd THEN Len(fd) ELSE maxd
    IN  StrToNat(SubSeq(fd, 1, k)) * (tpu \div Pow10(k))

\* float(tok) of a text of digits, "." and "-": a record [neg, ip, fd] of the
\* sign, the integer part and the fraction digits, or ValueError
ParseFloat(tok) ==
    LET neg  == tok # <<>> /\ Head(tok) = "-"
        body == IF neg THEN Tail(tok) ELSE tok
        dots == {i \in 1..Len(body) : body[i] = "."}
        dot  == IF dots = {} THEN Len(body) + 1 ELSE CHOOSE i \in dots : TRUE
        ipart == SubSeq(body, 1, dot - 1)
        fpart == SubSeq(body, dot + 1, Len(body))
    IN  IF \/ Cardinality(dots) > 1
           \/ ~AllDigits(ipart) \/ ~AllDigits(fpart)
           \/ (ipart = <<>> /\ fpart = <<>>)
        THEN ValueError
        ELSE [raised |-> "no", neg |-> neg, ip |-> StrToNat(ipart), fd |-> fpart]

\* a parsed number taken as degrees
AsDegrees(p) == Num(p.neg, p.ip, FracTicks(p.fd, TicksPerDegree, 7))

\* p / 60, in degrees
AsMinutes(p) ==
    Num(p.neg, p.ip \div 60,
        (p.ip % 60) * TicksPerMinute + FracTicks(p.fd, TicksPerMinute, 6))

\* p / 3600, in degrees
AsSeconds(p) ==
    Num(p.neg, p.ip \div 3600,
        (p.ip % 3600) * TicksPerSecond + FracTicks(p.fd, TicksPerSecond, 5))

(***************************************************************************)
(* Cells of a table: a text or a float                                      *)
(***************************************************************************)
Text(s) == [text |-> s]

\* isinstance(c, str)
IsText(c) == "text" \in DOMAIN c

(***************************************************************************)
(* parse_dms (lines 20-57): [value, st_error], value a float or NA         *)
(***************************************************************************)
\* lines 28-34
Normalise(text) ==
    LET s0 == Strip(Upper(text))
        s1 == Replace(Replace(s0, <<"L", "U">>, <<"N">>), <<"L", "S">>, <<"S">>)
        s2 == Replace(Replace(s1, <<"U", "T", "A", "R", "A">>, <<"N">>),
                      <<"S", "E", "L", "A", "T", "A", "N">>, <<"S">>)
        s3 == Replace(Replace(s2, <<"B", "T">>, <<"E">>), <<"B", "B">>, <<"W">>)
    IN  Replace(Replace(s3, <<"T", "I", "M", "U", "R">>, <<"E">>),
                <<"B", "A", "R", "A", "T">>, <<"W">>)

\* a plausible slip: the seconds divided by 60 like the minutes
parse_dms_seconds_as_minutes(dms_str) ==
    IF ~IsText(dms_str) THEN [value |-> NA, st_error |-> FALSE]
    ELSE
    LET s == Normalise(dms_str.text)
        parts == SplitWS(Strip(KeepNumeric(s)))
        deg == ParseFloat(parts[1])
        mnt == IF Len(parts) > 1 THEN ParseFloat(parts[2]) ELSE ParseFloat(<<"0">>)
        sec == IF Len(parts) > 2 THEN ParseFloat(parts[3]) ELSE ParseFloat(<<"0">>)
    IN  IF deg = ValueError \/ mnt = ValueError \/ sec = ValueError
        THEN [value |-> NA, st_error |-> TRUE]
        ELSE LET dd == Add(Add(Abs(AsDegrees(deg)), AsMinutes(mnt)), AsMinutes(sec))
             IN  [value |-> IF Contains(s, <<"S">>) \/ Contains(s, <<"W">>)
                                  \/ Lt0(AsDegrees(deg))
                               THEN Negate(dd) ELSE dd,
                  st_error |-> FALSE]

parse_dms(dms_str) ==
    IF ~IsText(dms_str) THEN [value |-> NA, st_error |-> FALSE]
    ELSE
    LET s == Normalise(dms_str.text)
        parts == SplitWS(Strip(KeepNumeric(s)))
        deg == ParseFloat(parts[1])
        mnt == IF Len(parts) > 1 THEN ParseFloat(parts[2]) ELSE ParseFloat(<<"0">>)
        sec == IF Len(parts) > 2 THEN ParseFloat(parts[3]) ELSE ParseFloat(<<"0">>)
    IN  IF deg = ValueError \/ mnt = ValueError \/ sec = ValueError
        THEN [value |-> NA, st_error |-> TRUE]
        ELSE LET dd == Add(Add(Abs(AsDegrees(deg)), AsMinutes(mnt)), AsSeconds(sec))
             IN  [value |-> IF Contains(s, <<"S">>) \/ Contains(s, <<"W">>)
                                  \/ Lt0(AsDegrees(deg))
                               THEN Negate(dd) ELSE dd,
                  st_error |-> FALSE]

(***************************************************************************)
(* dd_to_dms (lines 59-81)                                                 *)
(***************************************************************************)
\* round(x, 4) of seconds given in ticks: the count of 1e-4 seconds, ties to
\* even
RoundSeconds4(ticks) ==
    LET q == ticks \div 10
        r == ticks % 10
    IN  IF r > 5 \/ (r = 5 /\ q % 2 = 1) THEN q + 1 ELSE q

RECURSIVE DropTrailingZeros(_)
DropTrailingZeros(s) ==
    IF Len(s) > 1 /\ s[Len(s)] = "0"
    THEN DropTrailingZeros(SubSeq(s, 1, Len(s) - 1)) ELSE s

\* n written with 4 digits
Pad4(n) ==
    LET s == IntToStr(n)
    IN  [i \in 1..(4 - Len(s)) |-> "0"] \o s

\* f"{s}" of a float of at most 4 decimals, s4 its count of 1e-4
FormatSeconds(s4) ==
    IntToStr(s4 \div 10000) \o <<".">> \o DropTrailingZeros(Pad4(s4 % 10000))

dd_to_dms(dd, is_lat) ==
    IF ~IsNum(dd) THEN NA
    ELSE
    LET is_negative == Lt0(dd)
        d == dd.ip
        m == dd.fr \div TicksPerMinute
        s == RoundSeconds4(dd.fr % TicksPerMinute)
        direction ==
            IF is_lat
            THEN IF is_negative THEN <<"S", " ", "(", "L", "S", ")">>
                 ELSE <<"N", " ", "(", "L", "U", ")">>
            ELSE IF is_negative THEN <<"W", " ", "(", "B", "B", ")">>
                 ELSE <<"E", " ", "(", "B", "T", ")">>
    IN  Text(IntToStr(d) \o <<"<not>", "<infty>", " ">> \o IntToStr(m)
             \o <<"'", " ">> \o FormatSeconds(s) \o <<"\"", " ">> \o direction)

(***************************************************************************)
(* Tables (pandas DataFrame): column names, row labels, rows of cells      *)
(***************************************************************************)
Frame(columns, index, rows) == [columns |-> columns, index |-> index, rows |-> rows]

HasCol(f, name) == \E i \in 1..Len(f.columns) : f.columns[i] = name

ColPos(f, name) == CHOOSE i \in 1..Len(f.columns) : f.columns[i] = name

\* f[name] at row k
Cell(f, k, name) == f.rows[k][ColPos(f, name)]

\* f[name]
Col(f, name) == [k \in 1..Len(f.rows) |-> Cell(f, k, name)]

\* f[name] = vals: an existing column is overwritten in place, a new one is
\* appended
SetCol(f, name, vals) ==
    IF HasCol(f, name)
    THEN [f EXCEPT !.rows = [k \in 1..Len(f.rows) |->
                                [f.rows[k] EXCEPT ![ColPos(f, name)] = vals[k]]]]
    ELSE [f EXCEPT !.columns = Append(f.columns, name),
                   !.rows = [k \in 1..Len(f.rows) |-> Append(f.rows[k], vals[k])]]

\* f[names]: the named columns in the order asked for (a name may repeat)
Select(f, names) ==
    [f EXCEPT !.columns = names,
              !.rows = [k \in 1..Len(f.rows) |->
                           [i \in 1..Len(names) |-> Cell(f, k, names[i])]]]

\* pd.isna
IsNA(v) == v = NA \/ v = NaN \/ v = None

\* the positions from k on where keep holds, in increasing order
RECURSIVE KeptFrom(_, _)
KeptFrom(k, keep) ==
    IF k > Len(keep) THEN <<>>
    ELSE IF keep[k] THEN <<k>> \o KeptFrom(k + 1, keep)
         ELSE KeptFrom(k + 1, keep)

\* a plausible slip: dropna(how='all'), a row goes only when every column of
\* the subset is missing
dropna_how_all(f, subset) ==
    LET kept == KeptFrom(1, [k \in 1..Len(f.rows) |->
                    \E i \in 1..Len(subset) : ~IsNA(Cell(f, k, subset[i]))])
    IN  [f EXCEPT !.index = [j \in 1..Len(kept) |-> f.index[kept[j]]],
                  !.rows = [j \in 1..Len(kept) |-> f.rows[kept[j]]]]

\* f.dropna(subset=...) (line 189)
dropna(f, subset) ==
    LET kept == KeptFrom(1, [k \in 1..Len(f.rows) |->
                    \A i \in 1..Len(subset) : ~IsNA(Cell(f, k, subset[i]))])
    IN  [f EXCEPT !.index = [j \in 1..Len(kept) |-> f.index[kept[j]]],
                  !.rows = [j \in 1..Len(kept) |-> f.rows[kept[j]]]]

\* pd.to_numeric(cell, errors='coerce') for a float, or a text written with
\* digits, "." and a leading "-" (any other text is coerced to nan)
to_numeric(c) ==
    IF ~IsText(c) THEN (IF c = NA \/ c = None THEN NaN ELSE c)
    ELSE LET p == ParseFloat(c.text)
         IN  IF p = ValueError THEN NaN ELSE AsDegrees(p)

(***************************************************************************)
(* utm.from_latlon, the library call of line 129                           *)
(***************************************************************************)
FromInt(n) == Num(n < 0, IF n < 0 THEN 0 - n ELSE n, 0)

\* lo <= v <= hi for a finite float and two integers
InBounds(v, lo, hi) == IsNum(v) /\ Le(FromInt(lo), v) /\ Le(v, FromInt(hi))

\* v < n for a finite float and an integer
LtInt(v, n) == ~Le(FromInt(n), v)

ZONE_LETTERS == <<"C", "D", "E", "F", "G", "H", "J", "K", "L", "M", "N", "P",
                  "Q", "R", "S", "T", "U", "V", "W", "X", "X">>

\* the distance of 80.0 to the next float on either side, 2^-46, in units
\* of 2^-50
UlpOf80 == 16

\* int(latitude + 80) for a latitude of -80 .. 84.  The sum of a multiple of
\* the ticks is taken as exact; that of a float next to zero is rounded to
\* the nearest float, a tie to the even one, and so is 80.0 itself when the
\* latitude is within half of 2^-46 of zero
IntPlus80(latitude) ==
    IF Sub(latitude) = 0 THEN Add(latitude, FromInt(80)).ip
    ELSE LET q == Sub(latitude) \div UlpOf80
             r == Sub(latitude) % UlpOf80
             steps == IF 2 * r > UlpOf80 \/ (2 * r = UlpOf80 /\ q % 2 = 1)
                      THEN q + 1 ELSE q
         IN  IF latitude.neg /\ steps > 0 THEN 79 ELSE 80

\* latitude_to_zone_letter: ZONE_LETTERS[int(latitude + 80) >> 3]
latitude_to_zone_letter(latitude) ==
    ZONE_LETTERS[(IntPlus80(latitude) \div 8) + 1]

\* latlon_to_zone_number, with the bands of Norway and Svalbard
latlon_to_zone_number(latitude, longitude) ==
    IF /\ InBounds(latitude, 56, 64) /\ LtInt(latitude, 64)
       /\ InBounds(longitude, 3, 12) /\ LtInt(longitude, 12)
    THEN 32
    ELSE IF InBounds(latitude, 72, 84) /\ InBounds(longitude, 0, 42)
              /\ LtInt(longitude, 42)
         THEN CASE LtInt(longitude, 9) -> 31
                [] ~LtInt(longitude, 9) /\ LtInt(longitude, 21) -> 33
                [] ~LtInt(longitude, 21) /\ LtInt(longitude, 33) -> 35
                [] OTHER -> 37
         ELSE (Add(longitude, FromInt(180)).ip \div 6) + 1

\* utm.from_latlon: OutOfRangeError outside 80 S .. 84 N and 180 W .. 180 E;
\* the easting and the northing are left uninterpreted
from_latlon(latitude, longitude) ==
    IF ~InBounds(latitude, 0 - 80, 84) \/ ~InBounds(longitude, 0 - 180, 180)
    THEN ValueError
    ELSE [raised |-> "no",
          easting |-> [utm |-> "easting", lat |-> latitude, lon |-> longitude],
          northing |-> [utm |-> "northing", lat |-> latitude, lon |-> longitude],
          zone_number |-> latlon_to_zone_number(latitude, longitude),
          zone_letter |-> latitude_to_zone_letter(latitude)]

\* a <= b for two capital letters
LetterLe(a, b) ==
    (CHOOSE i \in 1..26 : UpperCase[i] = a) <= (CHOOSE i \in 1..26 : UpperCase[i] = b)

(***************************************************************************)
(* convert_dd_to_auto_utm (lines 122-136), of a row's lat_dd and lon_dd    *)
(***************************************************************************)
\* a plausible slip: a failed projection reported as zeros and an empty label
convert_dd_to_auto_utm_zeros(lat_dd, lon_dd) ==
    LET r == from_latlon(lat_dd, lon_dd) IN
    IF r = ValueError THEN <<Zero, Zero, Text(<<>>)>>
    ELSE LET zone_hemi == IF LetterLe("N", UpperChar(r.zone_letter)) THEN "N" ELSE "S"
         IN  <<r.easting, r.northing, Text(Append(IntToStr(r.zone_number), zone_hemi))>>

convert_dd_to_auto_utm(lat_dd, lon_dd) ==
    LET r == from_latlon(lat_dd, lon_dd) IN
    IF r = ValueError THEN <<NA, NA, NA>>
    ELSE LET zone_hemi == IF LetterLe("N", UpperChar(r.zone_letter)) THEN "N" ELSE "S"
         IN  <<r.easting, r.northing, Text(Append(IntToStr(r.zone_number), zone_hemi))>>

(***************************************************************************)
(* pyproj, the library calls of lines 172-183.  CRS(...) is taken to know  *)
(* every code get_input_epsg_code returns.  The inverse projection is      *)
(* taken to first order only: nan for a nan input, inf outside the         *)
(* projection's domain, else a point near the zone's central meridian.     *)
(***************************************************************************)
\* the zone and hemisphere of a code of get_input_epsg_code
crs_of_epsg(code) ==
    LET n == StrToNat(code) IN
    IF n >= 32700 THEN [zone |-> n - 32700, south |-> TRUE]
    ELSE IF n >= 32600 THEN [zone |-> n - 32600, south |-> FALSE]
    ELSE IF n >= 23895 THEN [zone |-> n - 23850, south |-> TRUE]
    ELSE IF n >= 23890 THEN [zone |-> n - 23840, south |-> TRUE]
    ELSE [zone |-> n - 23800, south |-> FALSE]

\* the signed integer part of a finite float
IntPart(v) == IF v.neg THEN 0 - v.ip ELSE v.ip

\* transformer.transform(easting, northing) with always_xy: <<lon, lat>>
transform(crs, easting, northing) ==
    IF easting = NaN \/ northing = NaN THEN <<NaN, NaN>>
    ELSE IF ~IsNum(easting) \/ ~IsNum(northing) THEN <<Inf, Inf>>
    ELSE
    LET dn == IF crs.south THEN IntPart(northing) - 10000000 ELSE IntPart(northing)
        lat == dn \div 110574
        dlon == (IntPart(easting) - 500000) \div 111320
        lon == 6 * crs.zone - 183 + dlon
    IN  IF lat > 90 \/ lat < 0 - 90 \/ dlon > 90 \/ dlon < 0 - 90
        THEN <<Inf, Inf>>
        ELSE <<FromInt(lon), FromInt(lat)>>

(***************************************************************************)
(* The tables and selections process_coordinates is called with            *)
(***************************************************************************)
DD == "Decimal Degrees (DD)"

DMS == "Geografis (DMS)"

UTM == "UTM"

MaxRows == 3

MaxCalls == 2

Datums == {"WGS84", "DGN95", "NAD27"}

\* the zone texts handed in with UTM input
UtmZones == {None, <<"4", "8", "S">>, <<"5", "0", "s">>, <<"1", "N">>,
             <<"6", "1", "N">>, <<"0", "S">>}

\* the zone texts handed in with DD and DMS input
OtherZones == {None, <<"4", "8", "S">>}

Zones(crs) == IF crs = UTM THEN UtmZones ELSE OtherZones

Row(x, y) == [x |-> x, y |-> y]

\* 106.5, -6.25: a point of Java; "abc": no number; 500: no longitude;
\* -85: south of the UTM bands
DDRows ==
    {Row(Text(<<"1", "0", "6", ".", "5">>), Text(<<"-", "6", ".", "2", "5">>)),
     Row(Text(<<"a", "b", "c">>), Text(<<"-", "6", ".", "2", "5">>)),
     Row(Text(<<"5", "0", "0">>), Text(<<"-", "6", ".", "2", "5">>)),
     Row(Text(<<"1", "0", "6", ".", "5">>), Text(<<"-", "8", "5">>))}

\* "106 49 37 BT", "6 10 30 LS"; "abc": no number; 6.175 as a float, not a
\* text; "200 0 0 BT": no longitude
DMSRows ==
    {Row(Text(<<"1", "0", "6", " ", "4", "9", " ", "3", "7", " ", "B", "T">>),
         Text(<<"6", " ", "1", "0", " ", "3", "0", " ", "L", "S">>)),
     Row(Text(<<"a", "b", "c">>),
         Text(<<"6", " ", "1", "0", " ", "3", "0", " ", "L", "S">>)),
     Row(Text(<<"1", "0", "6", " ", "4", "9", " ", "3", "7", " ", "B", "T">>),
         Num(TRUE, 6, 63000000)),
     Row(Text(<<"2", "0", "0", " ", "0", " ", "0", " ", "B", "T">>),
         Text(<<"6", " ", "1", "0", " ", "3", "0", " ", "L", "S">>))}

\* 703000, 9317000: the example of the input form; "abc" and "": not
\* numbers; 99999999: an easting no zone holds
UTMRows ==
    {Row(Text(<<"7", "0", "3", "0", "0", "0">>),
         Text(<<"9", "3", "1", "7", "0", "0", "0">>)),
     Row(Text(<<"a", "b", "c">>), Text(<<"9", "3", "1", "7", "0", "0", "0">>)),
     Row(Text(<<"7", "0", "3", "0", "0", "0">>), Text(<<>>)),
     Row(Text(<<"9", "9", "9", "9", "9", "9", "9", "9">>),
         Text(<<"9", "3", "1", "7", "0", "0", "0">>))}

RowsOf(crs) == IF crs = DD THEN DDRows ELSE IF crs = DMS THEN DMSRows ELSE UTMRows

\* the columns of the input: x, y and metadata, one of them named like a
\* computed column
Schemas == {<<"id", "x", "y">>, <<"id", "lat_dd", "x", "y">>}

\* the metadata cell of column c in the row at position k
Meta(c, k) == Text((IF c = "id" THEN <<"r">> ELSE <<"m">>) \o IntToStr(k))

\* the table of the given columns whose xy[k] are the x and y of row k
MakeFrame(columns, xy) ==
    Frame(columns,
          [k \in 1..Len(xy) |-> k - 1],
          [k \in 1..Len(xy) |->
              [i \in 1..Len(columns) |->
                  CASE columns[i] = "x" -> xy[k].x
                    [] columns[i] = "y" -> xy[k].y
                    [] OTHER -> Meta(columns[i], k)]])

(***************************************************************************)
(* process_coordinates (lines 138-219)                                     *)
(***************************************************************************)
Warning(text) == [level |-> "warning", text |-> text]

Error(text) == [level |-> "error", text |-> text]

DatumIgnored == Warning("Pengaturan Datum diabaikan")

NoValidData == Warning("Tidak ada data valid")

DmsError == Error("Error parsing DMS")

UtmError == Error("Error Konversi UTM ke DD")

\* int(s) of a text of digits with an optional leading "-"
ParseInt(s) ==
    LET neg == s # <<>> /\ Head(s) = "-"
        body == IF neg THEN Tail(s) ELSE s
    IN  IF body = <<>> \/ ~AllDigits(body) THEN ValueError
        ELSE Returned(IF neg THEN 0 - StrToNat(body) ELSE StrToNat(body))

\* lines 165-169: the zone text split and the code resolved, or the exception
resolve_epsg(zone_str, datum) ==
    IF zone_str = None \/ zone_str = <<>> THEN ValueError
    ELSE LET zone_num == ParseInt(SubSeq(zone_str, 1, Len(zone_str) - 1))
             zone_hemi == Upper(<<zone_str[Len(zone_str)]>>)
         IN  IF zone_num = ValueError THEN ValueError
             ELSE get_input_epsg_code(zone_num.value, zone_hemi, datum)

output_columns == <<"lat_dd", "lon_dd", "lat_dms", "lon_dms",
                    "easting_utm", "northing_utm", "zone_utm">>

\* line 216
original_cols(f) == SelectSeq(f.columns, LAMBDA c : c \notin {"x", "y"})

\* parse_dms of every cell of the tables above, evaluated once
parsed_dms == [c \in {r.x : r \in DMSRows} \cup {r.y : r \in DMSRows} |-> parse_dms(c)]

\* the st.error calls of one column handed to parse_dms
DmsErrors(col) ==
    [j \in 1..Len(SelectSeq(col, LAMBDA c : parsed_dms[c].st_error)) |-> DmsError]

\* a plausible slip: the datum of DD and DMS input refused, not ignored
DatumRefused(datum) ==
    IF datum # "WGS84" THEN <<Error("Datum tidak didukung")>> ELSE <<>>

\* lines 152-153 and 159-160
DatumWarning(datum) == IF datum # "WGS84" THEN <<DatumIgnored>> ELSE <<>>

\* lines 143, 147-153
Stage1DD ==
    /\ pc = "call"
    /\ input_crs_name = DD
    /\ df' = SetCol(SetCol(df_input, "lon_dd",
                           [k \in 1..Len(df_input.rows) |-> to_numeric(Cell(df_input, k, "x"))]),
                    "lat_dd",
                    [k \in 1..Len(df_input.rows) |-> to_numeric(Cell(df_input, k, "y"))])
    /\ messages' = messages \o DatumWarning(input_datum)
    /\ rows_parsed' = rows_parsed + Len(df_input.rows)
    /\ pc' = "dropna"
    /\ UNCHANGED <<df_input, input_crs_name, input_datum, input_zone_str,
                   source_epsg, result, stage2_rows, applied, hist, call_no,
                   prev_result, fn_vars>>

\* lines 143, 155-160
Stage1DMS ==
    /\ pc = "call"
    /\ input_crs_name = DMS
    /\ df' = SetCol(SetCol(df_input, "lon_dd",
                           [k \in 1..Len(df_input.rows) |->
                               parsed_dms[Cell(df_input, k, "x")].value]),
                    "lat_dd",
                    [k \in 1..Len(df_input.rows) |->
                        parsed_dms[Cell(df_input, k, "y")].value])
    /\ messages' = messages \o DmsErrors(Col(df_input, "x"))
                            \o DmsErrors(Col(df_input, "y"))
                            \o DatumWarning(input_datum)
    /\ rows_parsed' = rows_parsed + Len(df_input.rows)
    /\ pc' = "dropna"
    /\ UNCHANGED <<df_input, input_crs_name, input_datum, input_zone_str,
                   source_epsg, result, stage2_rows, applied, hist, call_no,
                   prev_result, fn_vars>>

\* lines 143, 162-175 and 184-186: the one CRS of the batch
ResolveCRS ==
    /\ pc = "call"
    /\ input_crs_name = UTM
    /\ LET r == resolve_epsg(input_zone_str, input_datum) IN
       IF r = ValueError
       THEN /\ messages' = Append(messages, UtmError)
            /\ result' = None
            /\ pc' = "done"
            /\ UNCHANGED source_epsg
       ELSE /\ source_epsg' = r.value
            /\ pc' = "utm_rows"
            /\ UNCHANGED <<messages, result>>
    /\ df' = df_input
    /\ UNCHANGED <<df_input, input_crs_name, input_datum, input_zone_str,
                   rows_parsed, stage2_rows, applied, hist, call_no,
                   prev_result, fn_vars>>

\* lines 177-183
TransformRows ==
    /\ pc = "utm_rows"
    /\ LET points == [k \in 1..Len(df.rows) |->
                         transform(crs_of_epsg(source_epsg),
                                   to_numeric(Cell(df, k, "x")),
                                   to_numeric(Cell(df, k, "y")))]
       IN  df' = SetCol(SetCol(df, "lon_dd", [k \in 1..Len(df.rows) |-> points[k][1]]),
                        "lat_dd", [k \in 1..Len(df.rows) |-> points[k][2]])
    /\ rows_parsed' = rows_parsed + Len(df.rows)
    /\ pc' = "dropna"
    /\ UNCHANGED <<df_input, input_crs_name, input_datum, input_zone_str,
                   source_epsg, messages, result, stage2_rows, applied, hist,
                   call_no, prev_result, fn_vars>>

\* a plausible slip: lines 190-192 left out, an empty table goes on
DropNaNoEmptyCheck ==
    /\ pc = "dropna"
    /\ LET kept == dropna(df, <<"lon_dd", "lat_dd">>) IN
       /\ df' = kept
       /\ hist' = [hist EXCEPT !.stage1 = kept]
    /\ pc' = "stage2a"
    /\ UNCHANGED <<df_input, input_crs_name, input_datum, input_zone_str,
                   source_epsg, messages, result, rows_parsed, stage2_rows,
                   applied, call_no, prev_result, fn_vars>>

\* lines 189-192
DropNa ==
    /\ pc = "dropna"
    /\ LET kept == dropna(df, <<"lon_dd", "lat_dd">>) IN
       /\ df' = kept
       /\ hist' = [hist EXCEPT !.stage1 = kept]
       /\ IF kept.rows = <<>>
          THEN /\ messages' = Append(messages, NoValidData)
               /\ result' = None
               /\ pc' = "done"
          ELSE /\ pc' = "stage2a"
               /\ UNCHANGED <<messages, result>>
    /\ UNCHANGED <<df_input, input_crs_name, input_datum, input_zone_str,
                   source_epsg, rows_parsed, stage2_rows, applied, call_no,
                   prev_result, fn_vars>>

\* lines 197-198
Stage2a ==
    /\ pc = "stage2a"
    /\ LET with_dms ==
               SetCol(SetCol(df, "lon_dms",
                             [k \in 1..Len(df.rows) |-> dd_to_dms(Cell(df, k, "lon_dd"), FALSE)]),
                      "lat_dms",
                      [k \in 1..Len(df.rows) |-> dd_to_dms(Cell(df, k, "lat_dd"), TRUE)])
       IN  /\ df' = with_dms
           /\ hist' = [hist EXCEPT !.stage2a = with_dms]
    /\ stage2_rows' = stage2_rows + Len(df.rows)
    /\ pc' = "stage2b"
    /\ UNCHANGED <<df_input, input_crs_name, input_datum, input_zone_str,
                   source_epsg, messages, result, rows_parsed, applied,
                   call_no, prev_result, fn_vars>>

\* lines 202-206, one row of df.apply(convert_dd_to_auto_utm, axis=1)
Stage2bRow ==
    /\ pc = "stage2b"
    /\ Len(applied) < Len(df.rows)
    /\ LET k == Len(applied) + 1
       IN  applied' = Append(applied, convert_dd_to_auto_utm(Cell(df, k, "lat_dd"),
                                                             Cell(df, k, "lon_dd")))
    /\ UNCHANGED <<df_input, input_crs_name, input_datum, input_zone_str, pc,
                   df, source_epsg, messages, result, rows_parsed,
                   stage2_rows, hist, call_no, prev_result, fn_vars>>

\* line 202 (the assignment of the three columns) and lines 211-219
Finalise ==
    /\ pc = "stage2b"
    /\ Len(applied) = Len(df.rows)
    /\ LET n == Len(df.rows)
           with_utm ==
               SetCol(SetCol(SetCol(df, "easting_utm", [k \in 1..n |-> applied[k][1]]),
                             "northing_utm", [k \in 1..n |-> applied[k][2]]),
                      "zone_utm", [k \in 1..n |-> applied[k][3]])
       IN  /\ df' = with_utm
           /\ result' = Select(with_utm, original_cols(df_input) \o output_columns)
    /\ pc' = "done"
    /\ UNCHANGED <<df_input, input_crs_name, input_datum, input_zone_str,
                   source_epsg, messages, rows_parsed, stage2_rows, applied,
                   hist, call_no, prev_result, fn_vars>>

(***************************************************************************)
(* The calls of process_coordinates                                        *)
(***************************************************************************)
FnIdle ==
    /\ fn_pc = "idle"
    /\ fn_in = None
    /\ fn_out = None

Init ==
    /\ input_crs_name \in {DD, DMS, UTM}
    /\ input_datum \in Datums
    /\ input_zone_str \in Zones(input_crs_name)
    /\ \E n \in 0..MaxRows : \E columns \in Schemas :
         \E xy \in [1..n -> RowsOf(input_crs_name)] :
            df_input = MakeFrame(columns, xy)
    /\ pc = "call"
    /\ df = None
    /\ source_epsg = None
    /\ messages = <<>>
    /\ result = None
    /\ rows_parsed = 0
    /\ stage2_rows = 0
    /\ applied = <<>>
    /\ hist = [stage1 |-> None, stage2a |-> None]
    /\ call_no = 1
    /\ prev_result = None
    /\ FnIdle

\* process_coordinates called again on the same table with the same input
\* representation and another datum and zone (DD and DMS input)
CallAgain ==
    /\ pc = "done"
    /\ call_no < MaxCalls
    /\ input_crs_name # UTM
    /\ input_datum' \in Datums
    /\ input_zone_str' \in Zones(input_crs_name)
    /\ prev_result' = [returned |-> result, messages |-> messages]
    /\ call_no' = call_no + 1
    /\ pc' = "call"
    /\ df' = None
    /\ source_epsg' = None
    /\ messages' = <<>>
    /\ result' = None
    /\ rows_parsed' = 0
    /\ stage2_rows' = 0
    /\ applied' = <<>>
    /\ hist' = [stage1 |-> None, stage2a |-> None]
    /\ UNCHANGED <<df_input, input_crs_name, fn_vars>>

Next ==
    \/ Stage1DD
    \/ Stage1DMS
    \/ ResolveCRS
    \/ TransformRows
    \/ DropNa
    \/ Stage2a
    \/ Stage2bRow
    \/ Finalise
    \/ CallAgain

Spec == Init /\ [][Next]_vars

(***************************************************************************)
(* get_input_epsg_code called on its own                                   *)
(***************************************************************************)
MaxZoneInput == 62

PipelineIdle ==
    /\ df_input = MakeFrame(<<"x", "y">>, <<>>)
    /\ input_crs_name = DD
    /\ input_datum = "WGS84"
    /\ input_zone_str = None
    /\ pc = "idle"
    /\ df = None
    /\ source_epsg = None
    /\ messages = <<>>
    /\ result = None
    /\ rows_parsed = 0
    /\ stage2_rows = 0
    /\ applied = <<>>
    /\ hist = [stage1 |-> None, stage2a |-> None]
    /\ call_no = 0
    /\ prev_result = None

InitEpsg ==
    /\ PipelineIdle
    /\ fn_pc = "call"
    /\ fn_in \in [zone_num : 0..MaxZoneInput,
                  zone_hemi : {<<"N">>, <<"S">>, <<"n">>, <<"s">>},
                  datum : Datums]
    /\ fn_out = None

CallEpsg ==
    /\ fn_pc = "call"
    /\ "datum" \in DOMAIN fn_in
    /\ fn_out' = get_input_epsg_code(fn_in.zone_num, fn_in.zone_hemi, fn_in.datum)
    /\ fn_pc' = "returned"
    /\ UNCHANGED <<fn_in, pipeline_vars>>

NextEpsg == CallEpsg

SpecEpsg == InitEpsg /\ [][NextEpsg]_vars

(***************************************************************************)
(* dd_to_dms and parse_dms called one after the other                      *)
(***************************************************************************)
HalfWindow == 6

\* ticks of the seconds: around 0", 15" and 59.99995", where round(.., 4)
\* gives 60.0
SecondTicks ==
    {t \in {b + j : b \in {0, 15 * TicksPerSecond, TicksPerMinute - 5},
                    j \in (0 - HalfWindow)..HalfWindow} :
        0 <= t /\ t < TicksPerMinute}

FractionTicks == {m * TicksPerMinute + t : m \in {0, 10, 59}, t \in SecondTicks}

\* the decimal degrees in range of an axis
DegreesInRange(is_lat) ==
    {Num(neg, ip, fr) : neg \in BOOLEAN,
                        ip \in IF is_lat THEN {0, 6, 89} ELSE {0, 6, 106, 179},
                        fr \in FractionTicks}
    \cup {Num(neg, IF is_lat THEN 90 ELSE 180, 0) : neg \in BOOLEAN}

InitDms ==
    /\ PipelineIdle
    /\ fn_pc = "call"
    /\ \E is_lat \in BOOLEAN : \E dd \in DegreesInRange(is_lat) :
          fn_in = [dd |-> dd, is_lat |-> is_lat]
    /\ fn_out = None

FormatDms ==
    /\ fn_pc = "call"
    /\ "dd" \in DOMAIN fn_in
    /\ fn_out' = [dms |-> dd_to_dms(fn_in.dd, fn_in.is_lat)]
    /\ fn_pc' = "formatted"
    /\ UNCHANGED <<fn_in, pipeline_vars>>

ParseDms ==
    /\ fn_pc = "formatted"
    /\ fn_out' = [dms |-> fn_out.dms, dd |-> parse_dms(fn_out.dms).value]
    /\ fn_pc' = "parsed"
    /\ UNCHANGED <<fn_in, pipeline_vars>>

NextDms ==
    \/ FormatDms
    \/ ParseDms

SpecDms == InitDms /\ [][NextDms]_vars

(***************************************************************************)
(* parse_dms called with texts of one to three numeric tokens              *)
(***************************************************************************)
\* a numeric token as it is written, with the number it stands for
Token(text, minus, ip) == [text |-> text, minus |-> minus, ip |-> ip]

DegreeTokens ==
    {Token(<<"6">>, FALSE, 6), Token(<<"-", "6">>, TRUE, 6),
     Token(<<"0">>, FALSE, 0), Token(<<"-", "0">>, TRUE, 0),
     Token(<<"1", "0", "6">>, FALSE, 106), Token(<<"-", "1", "0", "6">>, TRUE, 106)}

\* degree; degree and minute; degree, minute and second
TokenLists ==
    {<<d>> : d \in DegreeTokens}
    \cup {<<d, Token(<<"3", "0">>, FALSE, 30)>> : d \in DegreeTokens}
    \cup {<<d, Token(<<"3", "0">>, FALSE, 30), Token(<<"3", "6">>, FALSE, 36)>> :
             d \in DegreeTokens}

\* the hemisphere markers parse_dms knows, as a user writes them
NorthEastMarkers ==
    {<<"N">>, <<"E">>, <<"L", "U">>, <<"B", "T">>, <<"b", "t">>,
     <<"U", "t", "a", "r", "a">>, <<"T", "i", "m", "u", "r">>}

SouthWestMarkers ==
    {<<"S">>, <<"W">>, <<"L", "S">>, <<"B", "B">>, <<"l", "s">>,
     <<"S", "e", "l", "a", "t", "a", "n">>, <<"B", "a", "r", "a", "t">>}

Markers == {<<>>} \cup NorthEastMarkers \cup SouthWestMarkers

\* the tokens separated by one space, the marker after them
RECURSIVE JoinTokens(_)
JoinTokens(toks) ==
    IF toks = <<>> THEN <<>>
    ELSE IF Len(toks) = 1 THEN toks[1].text
    ELSE toks[1].text \o <<" ">> \o JoinTokens(Tail(toks))

DmsText(toks, marker) ==
    JoinTokens(toks) \o (IF marker = <<>> THEN <<>> ELSE <<" ">> \o marker)

InitTokens ==
    /\ PipelineIdle
    /\ fn_pc = "call"
    /\ \E toks \in TokenLists : \E marker \in Markers :
          fn_in = [tokens |-> toks, marker |-> marker,
                   dms_str |-> Text(DmsText(toks, marker))]
    /\ fn_out = None

ParseTokens ==
    /\ fn_pc = "call"
    /\ "tokens" \in DOMAIN fn_in
    /\ fn_out' = parse_dms(fn_in.dms_str)
    /\ fn_pc' = "returned"
    /\ UNCHANGED <<fn_in, pipeline_vars>>

NextTokens == ParseTokens

SpecTokens == InitTokens /\ [][NextTokens]_vars

(***************************************************************************)
(* convert_dd_to_auto_utm called with one point                            *)
(***************************************************************************)
MaxSub == 10

\* latitudes at zero, at the edges of the bands next to the equator and of
\* the UTM range, within the bands, next to zero below the resolution of
\* the ticks, and two that cannot be projected
HemiLatitudes ==
    {Num(neg, ip, fr) : neg \in BOOLEAN, ip \in {0, 7, 8, 79},
                        fr \in {0, 1, TicksPerDegree - 1}}
    \cup {Num(TRUE, 80, 0), Num(FALSE, 84, 0), Num(TRUE, 6, TicksPerDegree \div 4),
          Num(FALSE, 85, 0), Num(TRUE, 81, 0)}
    \cup {Tiny(neg, n) : neg \in BOOLEAN, n \in 1..MaxSub}

HemiLongitudes ==
    {Num(FALSE, 106, TicksPerDegree \div 2), Num(TRUE, 75, 0), Zero,
     Num(FALSE, 180, 0)}

InitHemi ==
    /\ PipelineIdle
    /\ fn_pc = "call"
    /\ \E lat \in HemiLatitudes : \E lon \in HemiLongitudes :
          fn_in = [lat_dd |-> lat, lon_dd |-> lon]
    /\ fn_out = None

CallAutoUtm ==
    /\ fn_pc = "call"
    /\ "lat_dd" \in DOMAIN fn_in
    /\ fn_out' = convert_dd_to_auto_utm(fn_in.lat_dd, fn_in.lon_dd)
    /\ fn_pc' = "returned"
    /\ UNCHANGED <<fn_in, pipeline_vars>>

NextHemi == CallAutoUtm

SpecHemi == InitHemi /\ [][NextHemi]_vars

(***************************************************************************)
(* Properties                                                              *)
(***************************************************************************)
Done == pc = "done"

Succeeded == pc = "done" /\ result # None

\* the southern DGN95 codes of zones 46..54 as the specification lists them
DGN95SouthCodes == <<23896, 23897, 23898, 23899, 23890, 23891, 23892, 23893, 23894>>

\* C1: get_input_epsg_code returns 32600+z (N) and 32700+z (S) for WGS84 and
\* every zone 1..60, and for DGN95 and every zone 46..54 the table entry:
\* 23800+z for N, and 23896, 23897, 23898, 23899, 23890, ..., 23894 for S.
C1_EpsgCodes ==
    (fn_pc = "returned" /\ Upper(fn_in.zone_hemi) \in {<<"N">>, <<"S">>}) =>
        LET z == fn_in.zone_num
            north == Upper(fn_in.zone_hemi) = <<"N">>
        IN  /\ (fn_in.datum = "WGS84" /\ z \in 1..60) =>
                  /\ fn_out.raised = "no"
                  /\ Len(fn_out.value) = 5 /\ AllDigits(fn_out.value)
                  /\ StrToNat(fn_out.value) = (IF north THEN 32600 ELSE 32700) + z
            /\ (fn_in.datum = "DGN95" /\ z \in 46..54) =>
                  /\ fn_out.raised = "no"
                  /\ Len(fn_out.value) = 5 /\ AllDigits(fn_out.value)
                  /\ StrToNat(fn_out.value) =
                         IF north THEN 23800 + z ELSE DGN95SouthCodes[z - 45]

\* DGN95 zone 50 S has returned 23890
C1_Witness ==
    /\ fn_pc = "returned"
    /\ fn_in = [zone_num |-> 50, zone_hemi |-> <<"S">>, datum |-> "DGN95"]
    /\ fn_out = Returned(<<"2", "3", "8", "9", "0">>)

\* the number in front of the hemisphere letter of the zone text, if any
ZoneNumberGiven ==
    IF input_zone_str = None \/ input_zone_str = <<>> THEN ValueError
    ELSE ParseInt(SubSeq(input_zone_str, 1, Len(input_zone_str) - 1))

\* UTM input whose datum is unsupported, or whose zone is outside 1..60
\* (WGS84) or 46..54 (DGN95)
BadConfiguration ==
    /\ input_crs_name = UTM
    /\ \/ input_datum \notin {"WGS84", "DGN95"}
       \/ /\ ZoneNumberGiven # ValueError
          /\ \/ input_datum = "WGS84" /\ ZoneNumberGiven.value \notin 1..60
             \/ input_datum = "DGN95" /\ ZoneNumberGiven.value \notin 46..54

\* C2: with UTM input, a bad datum or zone is found when the CRS is
\* resolved, before any row is parsed or projected; the call returns no
\* table, reports the error exactly once and emits no row.
C2_ConfigurationError ==
    BadConfiguration =>
        /\ pc \in {"call", "done"}
        /\ rows_parsed = 0 /\ stage2_rows = 0 /\ applied = <<>>
        /\ pc = "call" => messages = <<>>
        /\ pc = "done" => result = None /\ messages = <<UtmError>>

\* a table of three rows has been refused for DGN95 zone 1
C2_Witness ==
    /\ Done /\ BadConfiguration
    /\ input_datum = "DGN95" /\ input_zone_str = <<"1", "N">>
    /\ Len(df_input.rows) = 3
    /\ messages = <<UtmError>>

\* the CRS of the batch resolves (always so for DD and DMS input, which
\* resolve none)
Resolves ==
    input_crs_name = UTM => resolve_epsg(input_zone_str, input_datum) # ValueError

\* the cell gives a number in the chosen input representation
CellParses(c) ==
    IF input_crs_name = DMS THEN parsed_dms[c].value # NA ELSE to_numeric(c) # NaN

\* x and y of input row k both parse
RowParses(k) ==
    CellParses(Cell(df_input, k, "x")) /\ CellParses(Cell(df_input, k, "y"))

\* the input index labels of the rows that parse
ParsedLabels == {df_input.index[k] : k \in {i \in 1..Len(df_input.rows) : RowParses(i)}}

\* C3: in each input representation, when at least one row parses (for UTM:
\* the rows are reached, the CRS having resolved), the call succeeds and its
\* rows are exactly the input rows whose x and y both parse, in input order.
C3_ValidRowsKept ==
    (Done /\ Resolves /\ \E k \in 1..Len(df_input.rows) : RowParses(k)) =>
        /\ result # None
        /\ {result.index[j] : j \in 1..Len(result.index)} = ParsedLabels
        /\ Len(result.rows) = Len(result.index)
        /\ \A i, j \in 1..Len(result.index) : i < j => result.index[i] < result.index[j]
        /\ \A j \in 1..Len(result.rows) : \E k \in 1..Len(df_input.rows) :
              /\ df_input.index[k] = result.index[j]
              /\ Cell(result, j, "id") = Cell(df_input, k, "id")

\* three UTM rows, the second with x = "abc": rows 1 and 3 are returned
C3_Witness ==
    /\ Succeeded
    /\ input_crs_name = UTM
    /\ Len(df_input.rows) = 3
    /\ Cell(df_input, 2, "x") = Text(<<"a", "b", "c">>)
    /\ result.index = <<0, 2>>

\* the dropped-row counts the call hands to its caller: in a message or
\* beside the table
ReportedCounts ==
    {messages[i].count : i \in {j \in 1..Len(messages) : "count" \in DOMAIN messages[j]}}
    \cup (IF "dropped" \in DOMAIN result THEN {result.dropped} ELSE {})

\* C4: every successful call reports the number of dropped rows, input rows
\* minus output rows.
C4_DroppedCountReported ==
    Succeeded => (Len(df_input.rows) - Len(result.rows)) \in ReportedCounts

\* C5: when no input row survives Stage 1 (each row has an unparsable x or
\* y, or the table is empty) the call returns no table, never an empty one,
\* Stage 2 runs for no row, and a Stage 1 that got to its rows ends with the
\* "no valid data" warning.
C5_NoValidData ==
    (Done /\ \A k \in 1..Len(df_input.rows) : ~RowParses(k)) =>
        /\ result = None
        /\ stage2_rows = 0 /\ applied = <<>> /\ hist.stage2a = None
        /\ Resolves => /\ messages # <<>>
                       /\ messages[Len(messages)] = NoValidData
                       /\ hist.stage1.rows = <<>>

\* two rows, none of which parses, have ended with the warning
C5_Witness ==
    /\ Done
    /\ Len(df_input.rows) = 2
    /\ ~RowParses(1) /\ ~RowParses(2)
    /\ messages # <<>> /\ messages[Len(messages)] = NoValidData
    /\ result = None

\* the forward projection of row j of the table fails
ProjectionFails(f, j) ==
    from_latlon(Cell(f, j, "lat_dd"), Cell(f, j, "lon_dd")) = ValueError

\* C6: every row that survives Stage 1 is returned; one whose forward
\* projection fails keeps lat_dd, lon_dd, lat_dms and lon_dms as they were
\* and has easting_utm, northing_utm and zone_utm undefined, and every other
\* row has its own projection.
C6_ProjectionFailureKeepsRow ==
    Succeeded =>
        /\ result.index = hist.stage1.index
        /\ \A j \in 1..Len(hist.stage1.rows) :
              /\ Cell(result, j, "lat_dd") = Cell(hist.stage1, j, "lat_dd")
              /\ Cell(result, j, "lon_dd") = Cell(hist.stage1, j, "lon_dd")
              /\ Cell(result, j, "lat_dms") = Cell(hist.stage2a, j, "lat_dms")
              /\ Cell(result, j, "lon_dms") = Cell(hist.stage2a, j, "lon_dms")
              /\ IF ProjectionFails(hist.stage1, j)
                 THEN /\ Cell(result, j, "easting_utm") = NA
                      /\ Cell(result, j, "northing_utm") = NA
                      /\ Cell(result, j, "zone_utm") = NA
                 ELSE LET r == from_latlon(Cell(hist.stage1, j, "lat_dd"),
                                           Cell(hist.stage1, j, "lon_dd"))
                      IN  /\ Cell(result, j, "easting_utm") = r.easting
                          /\ Cell(result, j, "northing_utm") = r.northing
                          /\ IsText(Cell(result, j, "zone_utm"))

\* a polar row without projection is returned after a row with one
C6_Witness ==
    /\ Succeeded
    /\ ~HasCol(df_input, "lat_dd")
    /\ Len(result.rows) = 2
    /\ Cell(result, 1, "easting_utm") # NA
    /\ Cell(result, 2, "easting_utm") = NA
    /\ Cell(result, 2, "lat_dd") = Num(TRUE, 85, 0)
    /\ IsText(Cell(result, 2, "lat_dms"))

\* the messages but for the warning of an ignored datum
NotDatumWarning(msgs) == SelectSeq(msgs, LAMBDA m : m # DatumIgnored)

\* C7: with DD and DMS input the datum and the zone do not influence the
\* outcome: a second call on the same rows with any other datum and zone
\* returns the same, with the same messages but for the one warning that a
\* datum other than WGS84 adds.
C7_DatumAndZoneIgnored ==
    (Done /\ call_no > 1 /\ input_crs_name \in {DD, DMS}) =>
        /\ result = prev_result.returned
        /\ NotDatumWarning(messages) = NotDatumWarning(prev_result.messages)
        /\ \A i \in 1..Len(messages) :
              messages[i].level = "error" => messages[i] = DmsError
        /\ Len(SelectSeq(messages, LAMBDA m : m = DatumIgnored))
              = IF input_datum = "WGS84" THEN 0 ELSE 1

\* a table was returned for WGS84 and again for an unsupported datum and a
\* zone
C7_Witness ==
    /\ Succeeded /\ call_no = 2
    /\ input_crs_name = DMS
    /\ input_datum = "NAD27" /\ input_zone_str # None
    /\ NotDatumWarning(prev_result.messages) = prev_result.messages
    /\ result = prev_result.returned

\* C8: every returned row has lon_dd in [-180, 180] and lat_dd in [-90, 90].
C8_CanonicalPointInRange ==
    Succeeded =>
        \A j \in 1..Len(result.rows) :
            /\ InBounds(Cell(result, j, "lon_dd"), 0 - 180, 180)
            /\ InBounds(Cell(result, j, "lat_dd"), 0 - 90, 90)

\* C9: for every decimal degree d in range and each axis,
\* parse_dms(dd_to_dms(d, axis)) is a number within 1/3600 degree of d and
\* has the sign of d (the sign bit, where the seconds round to zero).
C9_DmsRoundTrip ==
    fn_pc = "parsed" =>
        /\ IsNum(fn_out.dd)
        /\ Within(fn_out.dd, fn_in.dd, Num(FALSE, 0, TicksPerSecond))
        /\ fn_out.dd.neg = Lt0(fn_in.dd)

\* a negative latitude of zero degrees whose seconds were written as 60.0
C9_Witness ==
    /\ fn_pc = "parsed"
    /\ fn_in.is_lat /\ Lt0(fn_in.dd) /\ fn_in.dd.ip = 0
    /\ Contains(fn_out.dms.text, <<" ", "6", "0", ".", "0">>)
    /\ fn_out.dd = Num(TRUE, 0, 11 * TicksPerMinute)

\* C10: every input field other than x and y is in the output row with its
\* input value, whatever its name, and these columns come before the
\* computed ones.
C10_MetadataPreserved ==
    Succeeded =>
        LET meta == original_cols(df_input) IN
        /\ result.columns = meta \o output_columns
        /\ \A j \in 1..Len(result.rows) : \A i \in 1..Len(meta) :
              \E k \in 1..Len(df_input.rows) :
                  /\ df_input.index[k] = result.index[j]
                  /\ result.rows[j][i] = Cell(df_input, k, meta[i])

\* |deg| + min/60 + sec/3600 of the tokens handed in, a missing minute or
\* second counted as 0
TokenMagnitude ==
    LET t == fn_in.tokens
    IN  Num(FALSE, t[1].ip,
            (IF Len(t) > 1 THEN t[2].ip * TicksPerMinute ELSE 0)
            + (IF Len(t) > 2 THEN t[3].ip * TicksPerSecond ELSE 0))

\* two floats equal as numbers: 0.0 and -0.0 are
SameNumber(a, b) == IsNum(a) /\ IsNum(b) /\ ((IsZero(a) /\ IsZero(b)) \/ a = b)

\* C11: for every text of one to three numeric tokens parse_dms returns
\* |deg| + min/60 + sec/3600, negated exactly when the text has a South/West
\* marker or its degree token is written with a minus sign ("-0" too); with
\* a North/East marker and a degree token without minus it is not negated.
C11_MagnitudeAndNegation ==
    fn_pc = "returned" =>
        /\ ~fn_out.st_error
        /\ SameNumber(fn_out.value,
                      IF fn_in.marker \in SouthWestMarkers \/ fn_in.tokens[1].minus
                      THEN Negate(TokenMagnitude) ELSE TokenMagnitude)

\* C12: for every point convert_dd_to_auto_utm projects, the hemisphere
\* letter of the zone label is N exactly when latitude >= 0 and S exactly
\* when latitude < 0.
C12_HemisphereByLatitudeSign ==
    (fn_pc = "returned" /\ "lat_dd" \in DOMAIN fn_in /\ fn_out[3] # NA) =>
        LET label == fn_out[3].text
        IN  label[Len(label)] = IF Lt0(fn_in.lat_dd) THEN "S" ELSE "N"

=============================================================================
